---- MODULE Spec2Model ----
(***************************************************************************)
(* Todo service with account-based authentication (src/main.py).           *)
(* State: the users and todos tables, the wall clock, the bearer tokens    *)
(* clients hold, signup requests between their lookup and their commit,    *)
(* and the last request with its response.                                 *)
(* Time is counted in minutes.  Text is a sequence of one-character        *)
(* strings, so that lower-casing and LIKE matching are computed.           *)
(***************************************************************************)
EXTENDS Integers, Sequences, FiniteSets, TLC

VARIABLES users, todos, now, tokens, pending, last

vars == <<users, todos, now, tokens, pending, last>>

\* ------------------------------------------------------------------ bounds
\* Rows per table (ids are handed out as max id + 1, so ids obey it too).
MaxUsers == 2
MaxTodos == 2
\* The clock stops here.
MaxNow == 3
\* Tokens the clients keep at one time.
MaxTokens == 1
\* Signup requests that may sit between lookup and commit at one time.
MaxInflight == 2
\* list_todos inputs: 0 <= skip <= MaxSkip, 1 <= limit <= MaxLimit.
MaxSkip == 1
MaxLimit == 2

\* ------------------------------------------------------------------ config
\* JWT_EXPIRES_MIN is read from the environment (default "60"); the model
\* runs the deployment JWT_EXPIRES_MIN=2 so that expiry is reached.
JWT_EXPIRES_MIN == 2
JWT_SECRET == "dev-super-secret-change-me"
JWT_ALGO == "HS256"

\* Optional[T]: None is the empty tuple, a present value v is <<v>>.
None == <<>>
Some(v) == <<v>>

\* ------------------------------------------------------------------ text
\* str.lower() / SQL lower() on the characters the model uses.
LowerChar(c) == IF c = "A" THEN "a" ELSE IF c = "B" THEN "b" ELSE IF c = "X" THEN "x" ELSE c

RECURSIVE LowerText(_)
LowerText(s) == IF s = <<>> THEN <<>> ELSE <<LowerChar(Head(s))>> \o LowerText(Tail(s))

\* SQL LIKE: % matches any run of characters, _ any one character.
RECURSIVE LikeMatch(_, _)
LikeMatch(p, s) ==
    IF p = <<>> THEN s = <<>>
    ELSE IF Head(p) = "%" THEN LikeMatch(Tail(p), s) \/ (s # <<>> /\ LikeMatch(p, Tail(s)))
    ELSE IF Head(p) = "_" THEN s # <<>> /\ LikeMatch(Tail(p), Tail(s))
    ELSE s # <<>> /\ Head(p) = Head(s) /\ LikeMatch(Tail(p), Tail(s))

\* column.ilike(pattern): LIKE on the lower-cased operands.
ILike(s, p) == LikeMatch(LowerText(p), LowerText(s))

\* str(n) and int(s) on decimal digit text.
Digits == <<"0", "1", "2", "3", "4", "5", "6", "7", "8", "9">>

RECURSIVE Str(_)
Str(n) == IF n < 10 THEN <<Digits[n + 1]>> ELSE Str(n \div 10) \o <<Digits[(n % 10) + 1]>>

DigitValue(c) == CHOOSE d \in 0..9 : Digits[d + 1] = c

IsDigitText(s) ==
    /\ s # <<>>
    /\ \A i \in 1..Len(s) : \E d \in 0..9 : Digits[d + 1] = s[i]

RECURSIVE IntOf(_)
IntOf(s) == IF Len(s) = 1 THEN DigitValue(s[1])
            ELSE 10 * IntOf(SubSeq(s, 1, Len(s) - 1)) + DigitValue(s[Len(s)])

\* ------------------------------------------------------------------ rows
MaxOf(S) == CHOOSE x \in S : \A y \in S : y <= x

\* Integer primary key on the default sqlite engine: the largest id plus one.
NextId(rows) == IF rows = {} THEN 1 ELSE MaxOf({r.id : r \in rows}) + 1

\* db.get(Model, id): the row with this primary key, or None.
Get(rows, id) == IF \E r \in rows : r.id = id THEN Some(CHOOSE r \in rows : r.id = id) ELSE None

\* ------------------------------------------------------------------ passwords
\* bcrypt: the stored hash names its scheme and salt and holds the digest of
\* salt and password; it is not the password.
Salts == {"salt1"}
Digest(salt, password) == <<salt, password>>

get_password_hash(password, salt) ==
    [scheme |-> "bcrypt", salt |-> salt, digest |-> Digest(salt, password)]

verify_password(plain, hashed) ==
    hashed.scheme = "bcrypt" /\ hashed.digest = Digest(hashed.salt, plain)

\* ------------------------------------------------------------------ tokens
\* jwt.encode: the claims, the algorithm and the signature over both.
Sign(claims, key, alg) == <<key, alg, claims>>

JwtEncode(claims, key, alg) == [claims |-> claims, alg |-> alg, sig |-> Sign(claims, key, alg)]

create_access_token(sub, expires_minutes) ==
    JwtEncode([sub |-> Some(sub), exp |-> now + expires_minutes], JWT_SECRET, JWT_ALGO)

\* jwt.decode: JWTError for a wrong algorithm, a signature that does not
\* match the claims, or an expiry in the past (exp < now); else the claims.
JwtExpired(claims, t) == claims.exp < t

JwtDecode(token, key, alg, t) ==
    IF token.alg # alg \/ token.sig # Sign(token.claims, key, alg) THEN [err |-> "JWTError"]
    ELSE IF JwtExpired(token.claims, t) THEN [err |-> "JWTError"]
    ELSE [err |-> "", claims |-> token.claims]

\* ------------------------------------------------------------------ responses
Response(status, detail, body) == [status |-> status, detail |-> detail, body |-> body]

credentials_error == Response(401, "Could not validate credentials", None)
NotAuthenticated == Response(401, "Not authenticated", None)
InternalServerError == Response(500, "Internal Server Error", None)
TodoNotFound == Response(404, "Todo not found", None)
EmailTaken == Response(409, "Email already registered", None)
BadLogin == Response(400, "Incorrect email or password", None)

\* ------------------------------------------------------------------ identity
\* oauth2_scheme then get_current_user, on an optional bearer token:
\* [ok |-> TRUE, user |-> u] or [ok |-> FALSE, resp |-> the error response].
\* int(payload.get("sub")) raises TypeError for a missing subject and
\* ValueError for one that is not a number; neither is a JWTError, so
\* neither is caught.
SubjectId(claims) ==
    IF claims.sub = None THEN [err |-> "TypeError"]
    ELSE IF ~IsDigitText(claims.sub[1]) THEN [err |-> "ValueError"]
    ELSE [err |-> "", id |-> IntOf(claims.sub[1])]

get_current_user(bearer) ==
    IF bearer = None THEN [ok |-> FALSE, resp |-> NotAuthenticated]
    ELSE LET payload == JwtDecode(bearer[1], JWT_SECRET, JWT_ALGO, now) IN
         IF payload.err # "" THEN [ok |-> FALSE, resp |-> credentials_error]
         ELSE LET sub == SubjectId(payload.claims) IN
              IF sub.err # "" THEN [ok |-> FALSE, resp |-> InternalServerError]
              ELSE LET user == Get(users, sub.id) IN
                   IF user = None \/ ~user[1].is_active
                   THEN [ok |-> FALSE, resp |-> credentials_error]
                   ELSE [ok |-> TRUE, user |-> user[1]]

\* ------------------------------------------------------------------ requests
\* The last request handled and its response.  A step that is no request
\* (the clock, an administrator's change of the users table) records its name.
Request(op, bearer, arg, resp) == [op |-> op, bearer |-> bearer, arg |-> arg, resp |-> resp]

NoResponse == Response(0, "", None)

\* UserOut: the user without its password hash.
UserOut(u) == [id |-> u.id, email |-> u.email, is_active |-> u.is_active]

\* func.lower(User.email) == email.lower()
SameEmail(u, email) == LowerText(u.email) = LowerText(email)

\* ------------------------------------------------------------------ auth routes
\* signup, first half: the existence lookup.  A taken email answers 409;
\* otherwise the request goes on to its insert and commit.
signup_lookup(email, password) ==
    /\ Cardinality(pending) < MaxInflight
    /\ IF \E u \in users : SameEmail(u, email)
       THEN /\ last' = Request("signup", None, [email |-> email, password |-> password], EmailTaken)
            /\ UNCHANGED pending
       ELSE /\ pending' = pending \cup {[email |-> email, password |-> password]}
            /\ last' = Request("signup", None, [email |-> email, password |-> password], NoResponse)
    /\ UNCHANGED <<users, todos, now, tokens>>

\* signup, second half: insert, commit, refresh.  The email column is
\* unique (byte for byte): a duplicate makes the commit raise, which no
\* handler catches.
signup_commit(r, salt) ==
    /\ r \in pending
    /\ pending' = pending \ {r}
    /\ IF \E u \in users : u.email = r.email
       THEN /\ last' = Request("signup", None, r, InternalServerError)
            /\ UNCHANGED users
       ELSE /\ NextId(users) <= MaxUsers
            /\ LET user == [id |-> NextId(users), email |-> r.email,
                            hashed_password |-> get_password_hash(r.password, salt),
                            is_active |-> TRUE] IN
               /\ users' = users \cup {user}
               /\ last' = Request("signup", None, r, Response(201, "", Some(UserOut(user))))
    /\ UNCHANGED <<todos, now, tokens>>

\* The client keeps the token it was given, dropping an old one when it
\* holds MaxTokens already.
Kept(token) ==
    IF token \in tokens \/ Cardinality(tokens) < MaxTokens THEN {tokens \cup {token}}
    ELSE {(tokens \ {old}) \cup {token} : old \in tokens}

\* login: .first() of the users with this email (no ORDER BY: any of them).
login(username, password) ==
    /\ LET matches == {u \in users : SameEmail(u, username)}
           arg == [username |-> username, password |-> password] IN
       IF matches = {}
       THEN /\ last' = Request("login", None, arg, BadLogin)
            /\ UNCHANGED tokens
       ELSE \E user \in matches :
              IF ~verify_password(password, user.hashed_password)
              THEN /\ last' = Request("login", None, arg, BadLogin)
                   /\ UNCHANGED tokens
              ELSE LET token == create_access_token(Str(user.id), JWT_EXPIRES_MIN) IN
                   /\ last' = Request("login", None, arg, Response(200, "bearer", Some(token)))
                   /\ tokens' \in Kept(token)
    /\ UNCHANGED <<users, todos, now, pending>>

\* GET /me
me(bearer) ==
    /\ LET cur == get_current_user(bearer) IN
       last' = Request("me", bearer, None,
                       IF cur.ok THEN Response(200, "", Some(UserOut(cur.user))) ELSE cur.resp)
    /\ UNCHANGED <<users, todos, now, tokens, pending>>

\* ------------------------------------------------------------------ todo routes
\* Each route's outcome as a function of the request and the current state:
\* the response and the todos table after it.
Outcome(resp, table) == [resp |-> resp, todos |-> table]

\* value or ""
OrEmpty(text) == IF text = None THEN <<>> ELSE text[1]

\* create_todo that stores the todo's own id as its owner_id.
create_todo_result_owner_mixup(bearer, title, description) ==
    LET cur == get_current_user(bearer) IN
    IF ~cur.ok THEN Outcome(cur.resp, todos)
    ELSE LET todo == [id |-> NextId(todos), title |-> title,
                      description |-> OrEmpty(description), owner_id |-> NextId(todos),
                      created_at |-> now, updated_at |-> now] IN
         Outcome(Response(201, "", Some(todo)), todos \cup {todo})

create_todo_result(bearer, title, description) ==
    LET cur == get_current_user(bearer) IN
    IF ~cur.ok THEN Outcome(cur.resp, todos)
    ELSE LET todo == [id |-> NextId(todos), title |-> title,
                      description |-> OrEmpty(description), owner_id |-> cur.user.id,
                      created_at |-> now, updated_at |-> now] IN
         Outcome(Response(201, "", Some(todo)), todos \cup {todo})

\* query.order_by(Todo.id.desc())
RECURSIVE OrderByIdDesc(_)
OrderByIdDesc(rows) ==
    IF rows = {} THEN <<>>
    ELSE LET top == CHOOSE r \in rows : \A o \in rows : o.id <= r.id IN
         <<top>> \o OrderByIdDesc(rows \ {top})

\* .offset(skip).limit(limit)
Offset(items, skip) == SubSeq(items, skip + 1, Len(items))
Limit(items, limit) == SubSeq(items, 1, IF Len(items) < limit THEN Len(items) ELSE limit)

\* (Todo.title.ilike(like)) | (Todo.description.ilike(like)), like = %q%
Search(rows, q) ==
    LET like == <<"%">> \o q \o <<"%">> IN
    {t \in rows : ILike(t.title, like) \/ ILike(t.description, like)}

\* if q: filter; then order_by, offset, limit, all.
Page(rows, q, skip, limit) ==
    LET found == IF q # None /\ q[1] # <<>> THEN Search(rows, q[1]) ELSE rows IN
    Limit(Offset(OrderByIdDesc(found), skip), limit)

\* list_todos without the owner filter.
list_todos_result_all_owners(bearer, q, skip, limit) ==
    LET cur == get_current_user(bearer) IN
    IF ~cur.ok THEN Outcome(cur.resp, todos)
    ELSE Outcome(Response(200, "", Page(todos, q, skip, limit)), todos)

list_todos_result(bearer, q, skip, limit) ==
    LET cur == get_current_user(bearer) IN
    IF ~cur.ok THEN Outcome(cur.resp, todos)
    ELSE Outcome(Response(200, "", Page({t \in todos : t.owner_id = cur.user.id}, q, skip, limit)), todos)

\* get_todo without the ownership test.
get_todo_result_any_owner(bearer, todo_id) ==
    LET cur == get_current_user(bearer) IN
    IF ~cur.ok THEN Outcome(cur.resp, todos)
    ELSE LET todo == Get(todos, todo_id) IN
         IF todo = None THEN Outcome(TodoNotFound, todos)
         ELSE Outcome(Response(200, "", todo), todos)

get_todo_result(bearer, todo_id) ==
    LET cur == get_current_user(bearer) IN
    IF ~cur.ok THEN Outcome(cur.resp, todos)
    ELSE LET todo == Get(todos, todo_id) IN
         IF todo = None \/ todo[1].owner_id # cur.user.id THEN Outcome(TodoNotFound, todos)
         ELSE Outcome(Response(200, "", todo), todos)

\* update_todo that treats an omitted description like create_todo does
\* (description or "").
update_todo_result_clears_description(bearer, todo_id, title, description) ==
    LET cur == get_current_user(bearer) IN
    IF ~cur.ok THEN Outcome(cur.resp, todos)
    ELSE LET todo == Get(todos, todo_id) IN
         IF todo = None \/ todo[1].owner_id # cur.user.id THEN Outcome(TodoNotFound, todos)
         ELSE LET updated == [todo[1] EXCEPT
                                !.title = IF title # None THEN title[1] ELSE @,
                                !.description = OrEmpty(description),
                                !.updated_at = now] IN
              Outcome(Response(200, "", Some(updated)), (todos \ {todo[1]}) \cup {updated})

update_todo_result(bearer, todo_id, title, description) ==
    LET cur == get_current_user(bearer) IN
    IF ~cur.ok THEN Outcome(cur.resp, todos)
    ELSE LET todo == Get(todos, todo_id) IN
         IF todo = None \/ todo[1].owner_id # cur.user.id THEN Outcome(TodoNotFound, todos)
         ELSE LET updated == [todo[1] EXCEPT
                                !.title = IF title # None THEN title[1] ELSE @,
                                !.description = IF description # None THEN description[1] ELSE @,
                                !.updated_at = now] IN
              Outcome(Response(200, "", Some(updated)), (todos \ {todo[1]}) \cup {updated})

\* delete_todo that answers 204 without deleting the row (a missing commit).
delete_todo_result_no_commit(bearer, todo_id) ==
    LET cur == get_current_user(bearer) IN
    IF ~cur.ok THEN Outcome(cur.resp, todos)
    ELSE LET todo == Get(todos, todo_id) IN
         IF todo = None \/ todo[1].owner_id # cur.user.id THEN Outcome(TodoNotFound, todos)
         ELSE Outcome(Response(204, "", None), todos)

delete_todo_result(bearer, todo_id) ==
    LET cur == get_current_user(bearer) IN
    IF ~cur.ok THEN Outcome(cur.resp, todos)
    ELSE LET todo == Get(todos, todo_id) IN
         IF todo = None \/ todo[1].owner_id # cur.user.id THEN Outcome(TodoNotFound, todos)
         ELSE Outcome(Response(204, "", None), todos \ {todo[1]})

\* The routes as steps.
create_todo(bearer, title, description) ==
    /\ NextId(todos) <= MaxTodos
    /\ LET out == create_todo_result(bearer, title, description) IN
       /\ todos' = out.todos
       /\ last' = Request("create_todo", bearer, [title |-> title, description |-> description], out.resp)
    /\ UNCHANGED <<users, now, tokens, pending>>

list_todos(bearer, q, skip, limit) ==
    /\ LET out == list_todos_result(bearer, q, skip, limit) IN
       /\ todos' = out.todos
       /\ last' = Request("list_todos", bearer, [q |-> q, skip |-> skip, limit |-> limit], out.resp)
    /\ UNCHANGED <<users, now, tokens, pending>>

get_todo(bearer, todo_id) ==
    /\ LET out == get_todo_result(bearer, todo_id) IN
       /\ todos' = out.todos
       /\ last' = Request("get_todo", bearer, [todo_id |-> todo_id], out.resp)
    /\ UNCHANGED <<users, now, tokens, pending>>

update_todo(bearer, todo_id, title, description) ==
    /\ LET out == update_todo_result(bearer, todo_id, title, description) IN
       /\ todos' = out.todos
       /\ last' = Request("update_todo", bearer,
                          [todo_id |-> todo_id, title |-> title, description |-> description], out.resp)
    /\ UNCHANGED <<users, now, tokens, pending>>

delete_todo(bearer, todo_id) ==
    /\ LET out == delete_todo_result(bearer, todo_id) IN
       /\ todos' = out.todos
       /\ last' = Request("delete_todo", bearer, [todo_id |-> todo_id], out.resp)
    /\ UNCHANGED <<users, now, tokens, pending>>

\* ------------------------------------------------------------------ environment
\* The wall clock (datetime.utcnow()).
Tick ==
    /\ now < MaxNow
    /\ now' = now + 1
    /\ last' = Request("tick", None, None, NoResponse)
    /\ UNCHANGED <<users, todos, tokens, pending>>

\* An administrator clears a user's is_active flag in the users table.
deactivate_user(id) ==
    /\ \E u \in users : /\ u.id = id
                        /\ u.is_active
                        /\ users' = (users \ {u}) \cup {[u EXCEPT !.is_active = FALSE]}
    /\ last' = Request("deactivate_user", None, [id |-> id], NoResponse)
    /\ UNCHANGED <<todos, now, tokens, pending>>

\* An administrator deletes a user; the todos relationship cascades
\* (cascade="all, delete-orphan").
delete_user(id) ==
    /\ \E u \in users : /\ u.id = id
                        /\ users' = users \ {u}
                        /\ todos' = {t \in todos : t.owner_id # u.id}
    /\ last' = Request("delete_user", None, [id |-> id], NoResponse)
    /\ UNCHANGED <<now, tokens, pending>>

\* ------------------------------------------------------------------ inputs
Emails == {<<"a", "@", "x">>, <<"A", "@", "x">>, <<"b", "@", "x">>}
Passwords == {"secret1", "secret2"}
Descriptions == {None, Some(<<"a">>)}
\* What create_todo is asked to store: a title, and perhaps a description.
NewTodos == {<<<<"A", "b">>, None>>, <<<<"b">>, Some(<<"a">>)>>}
Queries == {None, Some(<<>>), Some(<<"a", "b">>), Some(<<"_">>)}

\* Tokens that no login issued: one signed with another key, and two signed
\* with JWT_SECRET (the key is configuration, shared with whoever holds
\* it) that carry no subject, or a subject that is not a number.
ForgedToken == JwtEncode([sub |-> Some(Str(1)), exp |-> MaxNow + 1], "another-secret", JWT_ALGO)
NoSubToken == JwtEncode([sub |-> None, exp |-> MaxNow + 1], JWT_SECRET, JWT_ALGO)
BadSubToken == JwtEncode([sub |-> Some(<<"a", "b">>), exp |-> MaxNow + 1], JWT_SECRET, JWT_ALGO)

ClientBearers == {None} \cup {Some(t) : t \in tokens}
Bearers == ClientBearers \cup {Some(ForgedToken), Some(NoSubToken), Some(BadSubToken)}
TodoIds == 1..(MaxTodos + 1)
UserIds == 1..MaxUsers

\* ------------------------------------------------------------------ system
Init ==
    /\ users = {}
    /\ todos = {}
    /\ now = 0
    /\ tokens = {}
    /\ pending = {}
    /\ last = Request("startup", None, None, NoResponse)

Signup ==
    \/ \E e \in Emails, p \in Passwords : signup_lookup(e, p)
    \/ \E r \in pending, s \in Salts : signup_commit(r, s)

Login == \E e \in Emails, p \in Passwords : login(e, p)

Me == \E b \in Bearers : me(b)

Admin ==
    \/ \E id \in UserIds : deactivate_user(id)
    \/ \E id \in UserIds : delete_user(id)

CreateTodo == \E b \in ClientBearers, new \in NewTodos : create_todo(b, new[1], new[2])

ListTodos ==
    \E b \in ClientBearers, q \in Queries, skip \in 0..MaxSkip, limit \in 1..MaxLimit :
       list_todos(b, q, skip, limit)

GetTodo == \E b \in ClientBearers, id \in TodoIds : get_todo(b, id)

UpdateTodo ==
    \E b \in ClientBearers, id \in TodoIds, t \in {None, Some(<<"A", "b">>)}, d \in Descriptions :
       update_todo(b, id, t, d)

DeleteTodo == \E b \in ClientBearers, id \in TodoIds : delete_todo(b, id)

Next ==
    \/ Signup \/ Login \/ Me \/ Admin \/ Tick
    \/ CreateTodo \/ ListTodos \/ GetTodo \/ UpdateTodo \/ DeleteTodo

Spec == Init /\ [][Next]_vars

\* The authentication layer alone: no todo is created.
AuthNext == Signup \/ Login \/ Me \/ Admin \/ Tick
SpecAuth == Init /\ [][AuthNext]_vars

\* The todo routes alone, from the state in which two users have signed up
\* and logged in, the first created a todo, and a minute passed.
Alice == [id |-> 1, email |-> <<"a", "@", "x">>,
          hashed_password |-> get_password_hash("secret1", "salt1"), is_active |-> TRUE]
Bob == [id |-> 2, email |-> <<"b", "@", "x">>,
        hashed_password |-> get_password_hash("secret2", "salt1"), is_active |-> TRUE]

TodoInit ==
    /\ users = {Alice, Bob}
    /\ todos = {[id |-> 1, title |-> <<"b">>, description |-> <<>>, owner_id |-> Alice.id,
                 created_at |-> MaxNow - 1, updated_at |-> MaxNow - 1]}
    /\ now = MaxNow
    /\ tokens = {create_access_token(Str(u.id), JWT_EXPIRES_MIN) : u \in users}
    /\ pending = {}
    /\ last = Request("tick", None, None, NoResponse)

TodoNext ==
    \/ CreateTodo
    \/ GetTodo
    \/ \E b \in ClientBearers, id \in TodoIds : update_todo(b, id, None, Some(<<"a">>))
    \/ \E b \in ClientBearers, id \in TodoIds : update_todo(b, id, Some(<<"A", "b">>), None)
    \/ DeleteTodo
SpecTodos == TodoInit /\ [][TodoNext]_vars

ListNext == CreateTodo \/ DeleteTodo \/ ListTodos
SpecList == TodoInit /\ [][ListNext]_vars

UpdateNext == CreateTodo \/ UpdateTodo
SpecUpdate == TodoInit /\ [][UpdateNext]_vars

\* Every request route together, the clock standing still, on one email
\* per user and one password.
OwnerNext ==
    \/ \E e \in {Alice.email, Bob.email} : signup_lookup(e, "secret1")
    \/ \E r \in pending, s \in Salts : signup_commit(r, s)
    \/ \E e \in {Alice.email, Bob.email} : login(e, "secret1")
    \/ \E b \in ClientBearers : create_todo(b, <<"b">>, None)
    \/ \E b \in ClientBearers : list_todos(b, None, 0, MaxLimit)
    \/ \E b \in ClientBearers, id \in TodoIds : get_todo(b, id)
    \/ \E b \in ClientBearers, id \in TodoIds : update_todo(b, id, Some(<<"A", "b">>), None)
    \/ \E b \in ClientBearers, id \in TodoIds : delete_todo(b, id)
    \/ \E id \in UserIds : delete_user(id)
SpecOwner == Init /\ [][OwnerNext]_vars

\* ------------------------------------------------------------------ properties
\* The caller of the last request, resolved in the current state.
Caller == get_current_user(last.bearer)

\* C1: a resolved user who does not own todo t gets, from get_todo,
\* update_todo and delete_todo on t's id, the 404 "Todo not found" that an
\* id without a todo gets, and the todos table is left as it was.
C1_NonOwnerGetsNotFound ==
    [][ last'.op \in {"get_todo", "update_todo", "delete_todo"} =>
            LET cur == get_current_user(last'.bearer)
                target == Get(todos, last'.arg.todo_id) IN
            (cur.ok /\ (target = None \/ target[1].owner_id # cur.user.id)) =>
                /\ last'.resp = TodoNotFound
                /\ todos' = todos ]_vars

\* An update of another user's todo was answered 404.
C1_Witness ==
    /\ last.op = "update_todo"
    /\ Caller.ok
    /\ \E t \in todos : t.id = last.arg.todo_id /\ t.owner_id # Caller.user.id
    /\ last.arg.title # None
    /\ last.resp = TodoNotFound

\* Case-insensitive containment, where _ in the query stands for any character.
CharMatches(p, c) == p = "_" \/ LowerChar(p) = LowerChar(c)

Contains(text, pat) ==
    \E i \in 0..(Len(text) - Len(pat)) : \A j \in 1..Len(pat) : CharMatches(pat[j], text[i + j])

Matches(q, t) ==
    q = None \/ q[1] = <<>> \/ Contains(t.title, q[1]) \/ Contains(t.description, q[1])

C8_UpdateChangesOnlyGivenFields ==
    [][ (last'.op = "update_todo" /\ last'.resp.status = 200) =>
            LET a == last'.arg
                cur == get_current_user(last'.bearer)
                old == Get(todos, a.todo_id)
                new == Get(todos', a.todo_id) IN
            /\ cur.ok /\ old # None /\ new # None
            /\ old[1].owner_id = cur.user.id
            /\ new[1].owner_id = old[1].owner_id
            /\ new[1].created_at = old[1].created_at
            /\ new[1].title = (IF a.title = None THEN old[1].title ELSE a.title[1])
            /\ new[1].description = (IF a.description = None THEN old[1].description
                                     ELSE a.description[1])
            /\ new[1].updated_at = now'
            /\ last'.resp.body = new
            /\ todos' \ {new[1]} = todos \ {old[1]}
            /\ users' = users ]_vars

\* An update that gave a description and no title, at a later time than
\* the todo's creation, with another todo stored.
C8_Witness ==
    /\ last.op = "update_todo"
    /\ last.resp.status = 200
    /\ last.arg.title = None
    /\ last.arg.description # None
    /\ last.resp.body[1].description = last.arg.description[1]
    /\ last.resp.body[1].updated_at # last.resp.body[1].created_at
    /\ Cardinality(todos) >= 2

\* C9: after a delete_todo answered 204 the todo is gone and no other todo
\* is: get_todo on its id by the same user answers 404 and no list_todos of
\* that user holds it.
C9_DeletedTodoIsGone ==
    [][ (last'.op = "delete_todo" /\ last'.resp.status = 204) =>
            \A b \in ClientBearers, id \in TodoIds :
                (last'.bearer = b /\ last'.arg.todo_id = id) =>
                    /\ \E t \in todos : t.id = id /\ todos' = todos \ {t}
                    /\ (get_todo_result(b, id).resp = TodoNotFound)'
                    /\ \A q \in Queries, skip \in 0..MaxSkip, limit \in 1..MaxLimit :
                          LET mine == {t \in todos' : t.owner_id = get_current_user(b).user.id}
                              items == Page(mine, q, skip, limit) IN
                          \A i \in 1..Len(items) : items[i].id # id ]_vars

\* A delete answered 204 that left another todo of the same user stored.
C9_Witness ==
    /\ last.op = "delete_todo"
    /\ last.resp.status = 204
    /\ Caller.ok
    /\ \E t \in todos : t.owner_id = Caller.user.id

\* C10: a created todo's owner_id is the id of the user resolved from the
\* request's token; no step changes the owner_id of a stored todo; every
\* stored todo's owner_id is the id of a stored user.
OwnersExist == \A t \in todos : \E u \in users : u.id = t.owner_id

OwnerKept ==
    /\ \A t \in todos, t2 \in todos' : t2.id = t.id => t2.owner_id = t.owner_id
    /\ \A t2 \in todos' : (\A t \in todos : t.id # t2.id) =>
            /\ last'.op = "create_todo"
            /\ get_current_user(last'.bearer).ok
            /\ t2.owner_id = get_current_user(last'.bearer).user.id

C10_OneOwner == []OwnersExist /\ [][OwnerKept]_vars

\* The second user updated a todo of theirs while the first user's is stored.
C10_Witness ==
    /\ last.op = "update_todo"
    /\ last.resp.status = 200
    /\ last.resp.body[1].owner_id = 2
    /\ \E t \in todos : t.owner_id = 1

\* C3: in every reachable state, signups interleaving or not, no two users
\* have emails that are equal without regard to case.
C3_EmailsUnique == \A u1, u2 \in users : u1 # u2 => ~SameEmail(u1, u2.email)

\* The cases the identity resolver must refuse: no token; a token of this
\* service past its expiry; one whose subject has no user; one whose user
\* is not active.
SignedHere(token) == token.alg = JWT_ALGO /\ token.sig = Sign(token.claims, JWT_SECRET, JWT_ALGO)

MustRefuse(bearer) ==
    \/ bearer = None
    \/ /\ bearer # None
       /\ SignedHere(bearer[1])
       /\ SubjectId(bearer[1].claims).err = ""
       /\ \/ bearer[1].claims.exp < now
          \/ \A u \in users : u.id # SubjectId(bearer[1].claims).id
          \/ \E u \in users : u.id = SubjectId(bearer[1].claims).id /\ ~u.is_active

\* C4: in each of these cases identity resolution returns no user and
\* answers with one and the same 401 and detail.
C4_OneUnauthenticatedOutcome ==
    (last.op = "me" /\ MustRefuse(last.bearer)) =>
        /\ last.resp.status = 401
        /\ \A other \in Bearers : MustRefuse(other) =>
               /\ ~get_current_user(other).ok
               /\ get_current_user(other).resp = last.resp

\* C5: a token issued by login for a user who is stored and active
\* resolves to that user exactly while now < exp, exp being the time of
\* issue plus the time to live; from now = exp on it is refused.
C5_ValidUntilExpiry ==
    (/\ last.op = "me"
     /\ last.bearer # None
     /\ last.bearer[1] \in tokens
     /\ \E u \in users : u.id = IntOf(last.bearer[1].claims.sub[1]) /\ u.is_active) =>
        LET claims == last.bearer[1].claims IN
        IF now < claims.exp
        THEN last.resp.status = 200 /\ last.resp.body[1].id = IntOf(claims.sub[1])
        ELSE last.resp = credentials_error

\* C6: a token signed by this service that carries no subject, or a
\* subject that is not a user id, is answered like one whose signature is
\* bad: with the 401 of credentials_error.
C6_BadSubjectIsUnauthenticated ==
    (/\ last.op = "me"
     /\ last.bearer # None
     /\ SignedHere(last.bearer[1])
     /\ SubjectId(last.bearer[1].claims).err # "") =>
        /\ last.resp = credentials_error
        /\ last.resp = get_current_user(Some(ForgedToken)).resp

\* C7: login answers 400 without a token when no user has the email
\* (without regard to case) and a password hash the password verifies
\* against; otherwise 200 with a token whose subject is such a user's id
\* and which, the user being active, resolves to that user.
C7_LoginIssuesTheUsersToken ==
    last.op = "login" =>
        LET known == {u \in users : /\ SameEmail(u, last.arg.username)
                                    /\ verify_password(last.arg.password, u.hashed_password)} IN
        IF known = {} THEN last.resp = BadLogin
        ELSE /\ last.resp.status = 200
             /\ \E u \in known :
                   /\ last.resp.body[1].claims.sub = Some(Str(u.id))
                   /\ u.is_active => get_current_user(last.resp.body) = [ok |-> TRUE, user |-> u]

====
